---- MODULE Spec2Model ----
(***************************************************************************)
(* Playback controllers, derived snapshot and chart adapter of the         *)
(* TradeBotAI front end.                                                   *)
(*                                                                         *)
(* The repository carries two SimulationDesk components:                   *)
(*   deskA  src/src/components/SimulationDesk.tsx  (props: candles,        *)
(*          equityCurve, trades; hooks currentIndex / isPlaying / speedMs) *)
(*   deskB  src/unnamed/part_001 (prop priceData; hook simState, timerRef) *)
(* A build mounts one of them (App.tsx:1192 or App.tsx:3155).              *)
(*                                                                         *)
(* Besides the desks (Spec, LiveSpec, SpecScrub) the module holds          *)
(*   SpecSnapshot   what a render of deskA derives from the cursor         *)
(*   SpecNormalize  normalizeTimestamp of TvCandles                        *)
(*   SpecSeries     the candle series TvCandles passes to setData          *)
(*   SpecTv         the life of the chart TvCandles creates                *)
(* Each specification starts one of these and leaves the others unmounted. *)
(*                                                                         *)
(* React is modelled as the event loop it runs on:                         *)
(*  - a hook's state is the value the next render will read: an update is  *)
(*    folded into it when it is dispatched (updates of one hook are        *)
(*    applied in dispatch order);                                          *)
(*  - "r" is the last committed render: what the JSX and the closures of   *)
(*    the handlers see;                                                    *)
(*  - "e" is the render whose passive effects ran last: the dependencies   *)
(*    the next effect run compares with;                                   *)
(*  - a click or change handler is rendered and its effects are flushed    *)
(*    in the same task (discrete event); an update made from a timer, a    *)
(*    resolved fetch or an effect is rendered by a later task, and the     *)
(*    effects of that render run in a task after it, so the interval       *)
(*    callback can run in between.                                         *)
(***************************************************************************)
EXTENDS Integers, Sequences, FiniteSets, TLC

\* ---- bounds -------------------------------------------------------------
MaxLen == 3
MaxTimers == 3
MaxEquity == 2
MaxTrades == 2
MaxData == 2
MaxUpdates == 2
MaxBars == 3
MaxCandles == 3
MaxLedger == 1
MaxBeyond == 1

\* ---- program constants --------------------------------------------------
DefaultSpeedA == 250
DefaultSpeedB == 120
SecondsLimit == 2000000000
MsPerSecond == 1000
LoadTime == 1700000300
WindowSize == 300

\* values the speed sliders are moved to (min 80 / 40, max 600, step 20)
SliderSpeedsA == {120}
SliderSpeedsB == {240}

\* identities of the props objects (fresh arrays are new references)
Ids == 0..3

\* the cursor index a step-forward click started from, when no other
\* operation has acted since (NoStep otherwise)
NoStep == 0 - 1

VARIABLES deskA, deskB, lastOp, afterReplace, interactive, stepFrom,
          tv, calc

\* the state outside the desks: the chart adapter and the derived-data
\* calculations
nonDesk == <<tv, calc>>

vars == <<deskA, deskB, lastOp, afterReplace, interactive, stepFrom, tv, calc>>

Min(a, b) == IF a <= b THEN a ELSE b
Max(a, b) == IF a >= b THEN a ELSE b

\* id returned by window.setInterval: one no live timer holds
FreshTimerId(ts) ==
  LET free == {i \in 1..MaxTimers : \A t \in ts : t.id # i}
  IN IF free = {} THEN MaxTimers
     ELSE CHOOSE i \in free : \A j \in free : i <= j

\* a reference no render or effect has seen
FreshId(used) == CHOOSE i \in Ids : i \notin used

(***************************************************************************)
(* deskA: src/src/components/SimulationDesk.tsx                            *)
(***************************************************************************)

\* const maxIndex = Math.max(totalCandles - 1, 0)
MaxIndex(totalCandles) == Max(totalCandles - 1, 0)

\* const hasData = totalCandles > 0 && equityCurve.length > 0
HasData(r) == r.totalCandles > 0 /\ r.equityLen > 0

ActiveIndexUnclamped(r) == IF HasData(r) THEN r.currentIndex ELSE 0

\* const activeIndex = hasData ? Math.min(currentIndex, maxIndex) : 0
ActiveIndex(r) ==
  IF HasData(r) THEN Min(r.currentIndex, MaxIndex(r.totalCandles)) ELSE 0

\* what a render of deskA reads: the props and the hooks
ViewA(d) ==
  [propsId |-> d.propsId, totalCandles |-> d.totalCandles,
   equityLen |-> d.equityLen, currentIndex |-> d.currentIndex,
   isPlaying |-> d.isPlaying, speedMs |-> d.speedMs]

\* useEffect(() => { setCurrentIndex(0); setIsPlaying(false) }, [candles, equityCurve, trades])
ResetEffectA(d) ==
  IF d.r.propsId # d.e.propsId
  THEN [d EXCEPT !.currentIndex = 0, !.isPlaying = FALSE]
  ELSE d

TimerEffectANoCleanup(d) ==
  IF <<d.r.isPlaying, d.r.speedMs, d.r.totalCandles>>
       # <<d.e.isPlaying, d.e.speedMs, d.e.totalCandles>>
  THEN IF (~d.r.isPlaying) \/ d.r.totalCandles <= 1
       THEN [d EXCEPT !.effectTimer = 0]
       ELSE LET id == FreshTimerId(d.timers)
            IN [d EXCEPT !.timers = d.timers \cup
                            {[id |-> id, totalCandles |-> d.r.totalCandles]},
                         !.effectTimer = id]
  ELSE d

TimerEffectAStaleDeps(d) ==
  IF <<d.r.speedMs, d.r.totalCandles>> # <<d.e.speedMs, d.e.totalCandles>>
  THEN LET cleared == {t \in d.timers : t.id # d.effectTimer}
       IN IF (~d.r.isPlaying) \/ d.r.totalCandles <= 1
          THEN [d EXCEPT !.timers = cleared, !.effectTimer = 0]
          ELSE LET id == FreshTimerId(cleared)
               IN [d EXCEPT !.timers = cleared \cup
                               {[id |-> id, totalCandles |-> d.r.totalCandles]},
                            !.effectTimer = id]
  ELSE d

\* the timer effect: the cleanup of the previous run (clearInterval(id)),
\* then the body with the values of the committed render
TimerEffectA(d) ==
  IF <<d.r.isPlaying, d.r.speedMs, d.r.totalCandles>>
       # <<d.e.isPlaying, d.e.speedMs, d.e.totalCandles>>
  THEN LET cleared == {t \in d.timers : t.id # d.effectTimer}
       IN IF (~d.r.isPlaying) \/ d.r.totalCandles <= 1
          THEN [d EXCEPT !.timers = cleared, !.effectTimer = 0]
          ELSE LET id == FreshTimerId(cleared)
               IN [d EXCEPT !.timers = cleared \cup
                               {[id |-> id, totalCandles |-> d.r.totalCandles]},
                            !.effectTimer = id]
  ELSE d

\* useEffect(() => { if (currentIndex > maxIndex) setCurrentIndex(maxIndex) }, [currentIndex, maxIndex])
ClampEffectA(d) ==
  IF <<d.r.currentIndex, MaxIndex(d.r.totalCandles)>>
       # <<d.e.currentIndex, MaxIndex(d.e.totalCandles)>>
     /\ d.r.currentIndex > MaxIndex(d.r.totalCandles)
  THEN [d EXCEPT !.currentIndex = MaxIndex(d.r.totalCandles)]
  ELSE d

\* the passive effects of the committed render, in declaration order
RunEffectsA(d) ==
  LET x == ClampEffectA(TimerEffectA(ResetEffectA(d)))
  IN [x EXCEPT !.e = d.r, !.effectsPending = FALSE]

\* React flushes the pending passive effects before it renders again
FlushA(d) == IF d.effectsPending THEN RunEffectsA(d) ELSE d

\* render and commit
RenderA(d) ==
  LET f == FlushA(d)
  IN [f EXCEPT !.r = ViewA(f), !.effectsPending = TRUE]

\* a discrete event: render and effects in the task of the handler
SyncA(d) == RunEffectsA(RenderA(d))

TickANoBound(d, t) == [d EXCEPT !.currentIndex = d.currentIndex + 1]

\* the interval callback: setCurrentIndex((prev) => ...) with the
\* totalCandles of the render that registered the timer
TickA(d, t) ==
  IF d.currentIndex >= t.totalCandles - 1
  THEN [d EXCEPT !.isPlaying = FALSE]
  ELSE [d EXCEPT !.currentIndex = d.currentIndex + 1]

\* onClick={() => setIsPlaying((prev) => !prev)}
TogglePlayA(d) == [d EXCEPT !.isPlaying = ~d.isPlaying]

\* const handleScrub = (value) => { setIsPlaying(false); setCurrentIndex(value) }
HandleScrub(d, value) == [d EXCEPT !.isPlaying = FALSE, !.currentIndex = value]

SetSpeedAResets(d, ms) == [d EXCEPT !.speedMs = ms, !.currentIndex = 0]

\* onChange={(e) => setSpeedMs(Number(e.target.value))}
SetSpeedA(d, ms) == [d EXCEPT !.speedMs = ms]

HandleStepBackToStart(d) == [d EXCEPT !.currentIndex = 0]

\* const handleStepBack = () => setCurrentIndex((prev) => Math.max(0, prev - 1))
HandleStepBack(d) == [d EXCEPT !.currentIndex = Max(0, d.currentIndex - 1)]

\* const handleStepForward = () => setCurrentIndex((prev) => Math.min(maxIndex, prev + 1))
HandleStepForward(d) ==
  [d EXCEPT !.currentIndex =
              Min(MaxIndex(d.r.totalCandles), d.currentIndex + 1)]

\* object identities are compared, never read: the references held by the
\* last effect run, the last render and the props are renamed in that order
RenameIds(d) ==
  LET a == d.e.propsId
      b == d.r.propsId
      c == d.propsId
      nb == IF b = a THEN 0 ELSE 1
      nc == IF c = a THEN 0 ELSE IF c = b THEN nb ELSE nb + 1
  IN [d EXCEPT !.e.propsId = 0, !.r.propsId = nb, !.propsId = nc]

\* nothing is waiting to be rendered or run
QuiescentA(d) == ViewA(d) = d.r /\ ~d.effectsPending

UnmountedA ==
  [mounted |-> FALSE, propsId |-> 0, totalCandles |-> 0, equityLen |-> 0,
   currentIndex |-> 0, isPlaying |-> FALSE, speedMs |-> DefaultSpeedA,
   r |-> [propsId |-> 0, totalCandles |-> 0, equityLen |-> 0,
          currentIndex |-> 0, isPlaying |-> FALSE, speedMs |-> DefaultSpeedA],
   e |-> [propsId |-> 0, totalCandles |-> 0, equityLen |-> 0,
          currentIndex |-> 0, isPlaying |-> FALSE, speedMs |-> DefaultSpeedA],
   effectsPending |-> FALSE, timers |-> {}, effectTimer |-> 0]

\* the state after the first render and its effects: useState(0),
\* useState(false), useState(250); no effect changes anything on mount
MountA(n, q) ==
  LET v == [propsId |-> 0, totalCandles |-> n, equityLen |-> q,
            currentIndex |-> 0, isPlaying |-> FALSE, speedMs |-> DefaultSpeedA]
  IN [UnmountedA EXCEPT !.mounted = TRUE, !.totalCandles = n,
                        !.equityLen = q, !.r = v, !.e = v]

(***************************************************************************)
(* deskB: src/unnamed/part_001                                             *)
(***************************************************************************)

\* useState<SimulationState | null>(null)
NoSim ==
  [present |-> FALSE, equityLen |-> 0, step |-> 0,
   playing |-> FALSE, speedMs |-> DefaultSpeedB]

\* const totalBars = equityCurve.length; const maxStep = Math.max(totalBars - 1, 0)
MaxStep(s) == Max(s.equityLen - 1, 0)

\* fetchBacktest: setSimState({ response: data, step: 0, playing: false, speedMs: 120 })
LoadB(d, n) ==
  [d EXCEPT !.sim = [present |-> TRUE, equityLen |-> n, step |-> 0,
                     playing |-> FALSE, speedMs |-> DefaultSpeedB]]

\* const play = () => { if (!simState || totalBars === 0) return; setSimState(...playing: true) }
PlayB(d) ==
  IF (~d.r.present) \/ d.r.equityLen = 0 THEN d
  ELSE IF d.sim.present THEN [d EXCEPT !.sim.playing = TRUE] ELSE d

\* const pause = () => setSimState((s) => (s ? { ...s, playing: false } : s))
PauseB(d) == IF d.sim.present THEN [d EXCEPT !.sim.playing = FALSE] ELSE d

\* const reset = () => setSimState((s) => s ? { ...s, step: 0, playing: false } : s)
ResetB(d) ==
  IF d.sim.present THEN [d EXCEPT !.sim.step = 0, !.sim.playing = FALSE] ELSE d

\* stepForward: next = Math.min(s.step + 1, maxStep); playing: next >= maxStep ? false : s.playing
StepForwardB(d) ==
  IF d.sim.present
  THEN LET next == Min(d.sim.step + 1, MaxStep(d.r))
       IN [d EXCEPT !.sim.step = next,
                    !.sim.playing = IF next >= MaxStep(d.r) THEN FALSE
                                    ELSE d.sim.playing]
  ELSE d

\* stepBack: prev = Math.max(s.step - 1, 0)
StepBackB(d) ==
  IF d.sim.present THEN [d EXCEPT !.sim.step = Max(d.sim.step - 1, 0)] ELSE d

\* const updateSpeed = (value) => setSimState((s) => (s ? { ...s, speedMs: value } : s))
UpdateSpeedB(d, value) ==
  IF d.sim.present THEN [d EXCEPT !.sim.speedMs = value] ELSE d

TickBNoBound(d) ==
  IF d.sim.present THEN [d EXCEPT !.sim.step = d.sim.step + 1] ELSE d

\* the interval callback: localMax is read from the state the updater gets
TickB(d) ==
  IF ~d.sim.present THEN d
  ELSE IF d.sim.step >= MaxStep(d.sim)
       THEN [d EXCEPT !.sim.playing = FALSE]
       ELSE [d EXCEPT !.sim.step = d.sim.step + 1]

\* the dependencies [simState?.playing, simState?.speedMs]
DepsB(s) == <<s.present, s.playing, s.speedMs>>

\* if (timerRef.current) { clearInterval(timerRef.current); timerRef.current = null }
ClearTimerRefB(d) ==
  IF d.timerRef # 0
  THEN [d EXCEPT !.timers = {t \in d.timers : t.id # d.timerRef},
                 !.timerRef = 0]
  ELSE d

TimerEffectBNoCleanup(d) ==
  IF DepsB(d.r) # DepsB(d.e)
  THEN IF ~d.r.playing
       THEN [ClearTimerRefB(d) EXCEPT !.hasCleanup = FALSE]
       ELSE LET id == FreshTimerId(d.timers)
            IN [d EXCEPT !.timers = d.timers \cup {[id |-> id]},
                         !.timerRef = id, !.hasCleanup = TRUE]
  ELSE d

\* the timer effect: the cleanup the previous run returned, then the body
TimerEffectB(d) ==
  IF DepsB(d.r) # DepsB(d.e)
  THEN LET c == IF d.hasCleanup THEN ClearTimerRefB(d) ELSE d
       IN IF ~d.r.playing
          THEN [ClearTimerRefB(c) EXCEPT !.hasCleanup = FALSE]
          ELSE LET id == FreshTimerId(c.timers)
               IN [c EXCEPT !.timers = c.timers \cup {[id |-> id]},
                            !.timerRef = id, !.hasCleanup = TRUE]
  ELSE d

RunEffectsB(d) ==
  [TimerEffectB(d) EXCEPT !.e = d.r, !.effectsPending = FALSE]

FlushB(d) == IF d.effectsPending THEN RunEffectsB(d) ELSE d

RenderB(d) ==
  LET f == FlushB(d)
  IN [f EXCEPT !.r = f.sim, !.effectsPending = TRUE]

SyncB(d) == RunEffectsB(RenderB(d))

QuiescentB(d) == d.sim = d.r /\ ~d.effectsPending

UnmountedB ==
  [mounted |-> FALSE, sim |-> NoSim, r |-> NoSim, e |-> NoSim,
   effectsPending |-> FALSE, timers |-> {}, timerRef |-> 0,
   hasCleanup |-> FALSE]

\* after the first render and its effects: simState is null, no timer
MountB == [UnmountedB EXCEPT !.mounted = TRUE]

(***************************************************************************)
(* deskA: the snapshot a render derives from the cursor                    *)
(* (SimulationDesk.tsx:21-37, 83-127)                                      *)
(*                                                                         *)
(* A field of a candle is a tagged value [type, v]: type is what typeof /  *)
(* instanceof tell ("undefined", "number", "string", "date"); v is the     *)
(* number itself, what Date.parse gives for the string (NaN when it is     *)
(* not a date), or what getTime() gives for the Date.  Equity and trade    *)
(* times are epoch milliseconds (formatTimestamp: new Date(ts)).           *)
(***************************************************************************)

\* null, and NaN: never an instant of the model, whose times are >= 0
NullTs == 0 - 1
NaN == 0 - 2

Undefined == [type |-> "undefined", v |-> NullTs]
Number(n) == [type |-> "number", v |-> n]
DateString(parsed) == [type |-> "string", v |-> parsed]
DateObject(ms) == [type |-> "date", v |-> ms]

\* Number.isFinite(x) for a typeof "number" value
IsFinite(x) == x.type = "number" /\ x.v # NaN

\* resolveTimestamp(point)
ResolveTimestamp(point) ==
  IF IsFinite(point.ts) THEN point.ts.v
  ELSE IF IsFinite(point.time) THEN point.time.v
  ELSE IF point.time.type = "string"
       THEN (IF point.time.v = NaN THEN NullTs ELSE point.time.v)
  ELSE IF point.time.type = "date" THEN point.time.v
  ELSE NullTs

\* const currentTs = useMemo(...): the candle's time, else the equity time
\* at the cursor (hasData: the series are not empty)
CurrentTs(currentCandle, equityCurve, activeIndex) ==
  LET ts == ResolveTimestamp(currentCandle)
  IN IF ts # NullTs THEN ts
     ELSE equityCurve[Min(activeIndex, Len(equityCurve) - 1) + 1].ts

\* for (const point of equityCurve) { if (point.ts <= currentTs) latest = point; else break; }
RECURSIVE ScanEquity(_, _, _, _)
ScanEquity(equityCurve, currentTs, i, latest) ==
  IF i > Len(equityCurve) THEN latest
  ELSE IF equityCurve[i].ts <= currentTs
       THEN ScanEquity(equityCurve, currentTs, i + 1, equityCurve[i])
       ELSE latest

CurrentEquityPointStrict(equityCurve, currentTs) ==
  IF currentTs = NullTs THEN equityCurve[Len(equityCurve)]
  ELSE LET before == {i \in 1..Len(equityCurve) : equityCurve[i].ts < currentTs}
       IN IF before = {} THEN equityCurve[1]
          ELSE equityCurve[CHOOSE i \in before : \A j \in before : j <= i]

\* const currentEquityPoint = useMemo(...), for a series that is not empty
CurrentEquityPoint(equityCurve, currentTs) ==
  IF currentTs = NullTs THEN equityCurve[Len(equityCurve)]
  ELSE ScanEquity(equityCurve, currentTs, 1, equityCurve[1])

\* Array.prototype.sort((a, b) => a.entry_ts - b.entry_ts): stable
RECURSIVE InsertByEntry(_, _)
InsertByEntry(sorted, trade) ==
  IF sorted = <<>> THEN <<trade>>
  ELSE IF sorted[Len(sorted)].entry_ts <= trade.entry_ts
       THEN Append(sorted, trade)
       ELSE Append(InsertByEntry(SubSeq(sorted, 1, Len(sorted) - 1), trade),
                   sorted[Len(sorted)])

RECURSIVE SortByEntry(_)
SortByEntry(trades) ==
  IF trades = <<>> THEN <<>>
  ELSE InsertByEntry(SortByEntry(SubSeq(trades, 1, Len(trades) - 1)),
                     trades[Len(trades)])

\* trade.entry_ts <= currentTs && (trade.exit_ts == null || trade.exit_ts > currentTs)
IsOpenAt(trade, currentTs) ==
  /\ trade.entry_ts <= currentTs
  /\ (trade.exit_ts = NullTs \/ trade.exit_ts > currentTs)

OpenTradesUnsorted(trades, currentTs) ==
  IF trades = <<>> \/ currentTs = NullTs THEN <<>>
  ELSE SelectSeq(trades, LAMBDA trade : IsOpenAt(trade, currentTs))

\* const openTrades = useMemo(...)
OpenTrades(trades, currentTs) ==
  IF trades = <<>> \/ currentTs = NullTs THEN <<>>
  ELSE SortByEntry(SelectSeq(trades, LAMBDA trade : IsOpenAt(trade, currentTs)))

IsRealizedBefore(trade, currentTs) ==
  trade.exit_ts # NullTs /\ trade.exit_ts < currentTs

\* trade.exit_ts != null && trade.exit_ts <= currentTs
IsRealizedAt(trade, currentTs) ==
  trade.exit_ts # NullTs /\ trade.exit_ts <= currentTs

\* .reduce((sum, trade) => sum + trade.pnl, 0)
RECURSIVE SumPnl(_)
SumPnl(trades) ==
  IF trades = <<>> THEN 0
  ELSE SumPnl(SubSeq(trades, 1, Len(trades) - 1)) + trades[Len(trades)].pnl

\* const realizedPnl = useMemo(...)
RealizedPnl(trades, currentTs) ==
  IF trades = <<>> \/ currentTs = NullTs THEN 0
  ELSE SumPnl(SelectSeq(trades, LAMBDA trade : IsRealizedAt(trade, currentTs)))

\* one render of the snapshot: the four memos, in the order of the code
RenderSnapshot(c) ==
  LET ts == CurrentTs(c.currentCandle, c.equityCurve, c.activeIndex)
  IN [c EXCEPT !.rendered = TRUE,
               !.currentTs = ts,
               !.currentEquityPoint = CurrentEquityPoint(c.equityCurve, ts),
               !.openTrades = OpenTrades(c.trades, ts),
               !.realizedPnl = RealizedPnl(c.trades, ts)]

\* the desk holds props and a cursor; no render has derived anything yet
MountSnapshot(candle, activeIndex, equityCurve, trades) ==
  [currentCandle |-> candle, activeIndex |-> activeIndex,
   equityCurve |-> equityCurve, trades |-> trades, rendered |-> FALSE,
   currentTs |-> NullTs, currentEquityPoint |-> equityCurve[1],
   openTrades |-> <<>>, realizedPnl |-> 0]

\* ---- the props and cursors the snapshot is derived from ---------------------

EquityTimes == {0, 60000, 120000}
EquityValues == {1000, 1050}

\* EquityPoint = { ts, equity }
EquityPoints == [ts : EquityTimes, equity : EquityValues]

\* equity curves, ascending by ts as the backtest returns them
EquitySeries(maxLen) ==
  {eq \in UNION {[1..n -> EquityPoints] : n \in 1..maxLen} :
     \A i, j \in 1..Len(eq) : i < j => eq[i].ts <= eq[j].ts}

ExampleEquity ==
  <<[ts |-> 0, equity |-> 1000], [ts |-> 120000, equity |-> 1050]>>

\* Trade = { entry_ts, exit_ts | null, pnl, ... }
TradeSet ==
  [entry_ts : {0, 60000}, exit_ts : {NullTs, 60000, 120000},
   pnl : {50, 0 - 20}]

\* ledgers, in any order
Ledgers(maxLen) == UNION {[1..n -> TradeSet] : n \in 0..maxLen}

ExampleTrades == <<[entry_ts |-> 0, exit_ts |-> 120000, pnl |-> 50]>>

\* instants of the cursor candle, epoch milliseconds
CursorInstants == {0, 59999, 60000, 119999, 120000}

\* the ways a ChartPoint carries its instant
TimeForms == {"ts", "timeMs", "timeSec", "string", "date"}

\* the candle that carries the instant ms in the given form; a candle built
\* by App.tsx (ts: c.ts, time: fmtTime(c.ts)) has ts and a locale text as time
CandleOf(form, ms) ==
  IF form = "ts" THEN [ts |-> Number(ms), time |-> DateString(NaN)]
  ELSE IF form = "timeMs" THEN [ts |-> Undefined, time |-> Number(ms)]
  ELSE IF form = "timeSec" THEN [ts |-> Undefined, time |-> Number(ms \div 1000)]
  ELSE IF form = "string" THEN [ts |-> Undefined, time |-> DateString(ms)]
  ELSE [ts |-> Undefined, time |-> DateObject(ms)]

\* candles resolveTimestamp gives null for
TimelessCandles ==
  {[ts |-> Undefined, time |-> Undefined],
   [ts |-> Number(NaN), time |-> DateString(NaN)]}

\* cursors <<candle, its instant, activeIndex>>: candles that carry ts, and
\* candles of every form
TsCursors ==
  {<<CandleOf("ts", t), t, i>> : t \in CursorInstants, i \in 0..1}

FormCursors ==
  {<<CandleOf(f, t), t, i>> :
     f \in TimeForms, t \in {x \in CursorInstants : x % 1000 = 0}, i \in 0..1}
  \cup {<<c, NullTs, i>> : c \in TimelessCandles, i \in 0..1}

\* the cursors tried with the props: every form with the example props,
\* the ts form with the others
CursorsFor(equityCurve, trades) ==
  IF equityCurve = ExampleEquity /\ trades = ExampleTrades
  THEN TsCursors \cup FormCursors ELSE TsCursors

\* props <<equityCurve, trades>>: every equity curve without trades, every
\* ledger with the example curve
SnapshotProps(maxEquity, maxTrades) ==
  {<<eq, <<>>>> : eq \in EquitySeries(maxEquity)}
  \cup {<<ExampleEquity, tr>> : tr \in Ledgers(maxTrades)}

(***************************************************************************)
(* TvCandles: the chart adapter.  Three versions are in the repository:    *)
(*   "v1"  src/src/components/TvCandles.tsx:1-286                          *)
(*   "v2"  src/src/components/TvCandles.tsx:288-527                        *)
(*   "v3"  src/unnamed/part_004                                            *)
(* normalizeTimestamp is the same in the three.                            *)
(*                                                                         *)
(* Epoch milliseconds of today exceed the 32-bit integers of TLC, so a     *)
(* JavaScript integer x >= 0 is held as [hi, lo] with                      *)
(* x = MsPerSecond * hi + lo and 0 <= lo < MsPerSecond.                    *)
(***************************************************************************)

JsInt(hi, lo) == [hi |-> hi, lo |-> lo]

\* the number n, and the number MsPerSecond * n
OfInt(n) == JsInt(n \div MsPerSecond, n % MsPerSecond)
TimesThousand(n) == JsInt(n, 0)

\* null and NaN, as results and as field values
NullNum == JsInt(0 - 1, 0)
NaNNum == JsInt(0 - 2, 0)

UndefinedTime == [type |-> "undefined", v |-> NullNum]

\* x > n, x < y
Exceeds(x, n) ==
  \/ x.hi > n \div MsPerSecond
  \/ (x.hi = n \div MsPerSecond /\ x.lo > n % MsPerSecond)

Before(x, y) == x.hi < y.hi \/ (x.hi = y.hi /\ x.lo < y.lo)

\* Math.floor(x / 1000)
FloorSeconds(x) == OfInt(x.hi)

NormalizeTimestampNoScale(value) ==
  IF value.type = "number"
  THEN (IF value.v = NaNNum THEN NullNum ELSE value.v)
  ELSE IF value.type \in {"string", "date"}
  THEN (IF value.v = NaNNum THEN NullNum ELSE FloorSeconds(value.v))
  ELSE NullNum

\* normalizeTimestamp(value)
NormalizeTimestamp(value) ==
  IF value.type = "number"
  THEN (IF value.v = NaNNum THEN NullNum
        ELSE IF Exceeds(value.v, SecondsLimit) THEN FloorSeconds(value.v)
        ELSE value.v)
  ELSE IF value.type \in {"string", "date"}
  THEN (IF value.v = NaNNum THEN NullNum ELSE FloorSeconds(value.v))
  ELSE NullNum

\* instants, as epoch seconds
EpochSeconds ==
  {0, 1, 60, 999, 1000, 86400, 1999999, 2000000, 2000001, 2147483,
   946684800, 1700000000, 1700000060, 1999999999, 2000000000, 2000000001,
   2147483647}

\* the forms a time is handed to normalizeTimestamp in
NormalForms == {"seconds", "millis", "string", "date"}

TimeValueOf(form, s) ==
  IF form = "seconds" THEN Number(OfInt(s))
  ELSE IF form = "millis" THEN Number(TimesThousand(s))
  ELSE IF form = "string" THEN DateString(TimesThousand(s))
  ELSE DateObject(TimesThousand(s))

\* not normalized yet
Pending == JsInt(0 - 3, 0)

\* ---- TvCandles: from the data prop to setData --------------------------------

TvVersions == {"v1", "v2", "v3"}

\* getPointTimestamp(point):
\*   v1, v3  normalizeTimestamp(point.time) ?? normalizeTimestamp(point.ts)
\*   v2      normalizeTimestamp(point.ts ?? point.time)
GetPointTimestamp(version, point) ==
  IF version = "v2"
  THEN NormalizeTimestamp(IF point.ts.type = "undefined" THEN point.time
                          ELSE point.ts)
  ELSE LET viaTime == NormalizeTimestamp(point.time)
       IN IF viaTime # NullNum THEN viaTime ELSE NormalizeTimestamp(point.ts)

\* the candles that pass the filter, mapped to { time: ts, open, ..., close }
\* (one price stands for open, high, low and close; finite: all four are)
RECURSIVE MapCandles(_, _)
MapCandles(version, data) ==
  IF data = <<>> THEN <<>>
  ELSE LET d == Head(data)
           rest == MapCandles(version, Tail(data))
       IN IF d.finite /\ GetPointTimestamp(version, d) # NullNum
          THEN <<[time |-> GetPointTimestamp(version, d), close |-> d.close]>>
               \o rest
          ELSE rest

\* mapped.sort((a, b) => a.time - b.time): stable
RECURSIVE InsertByTime(_, _)
InsertByTime(sorted, c) ==
  IF sorted = <<>> THEN <<c>>
  ELSE IF ~Before(c.time, sorted[Len(sorted)].time)
       THEN Append(sorted, c)
       ELSE Append(InsertByTime(SubSeq(sorted, 1, Len(sorted) - 1), c),
                   sorted[Len(sorted)])

RECURSIVE SortByTime(_)
SortByTime(series) ==
  IF series = <<>> THEN <<>>
  ELSE InsertByTime(SortByTime(SubSeq(series, 1, Len(series) - 1)),
                    series[Len(series)])

\* FALLBACK_SERIES: base = Math.floor(Date.now() / 1000) - 60 * 5, five
\* candles one minute apart; LoadTime is Date.now() / 1000 at module load
FallbackCloses == <<102, 107, 104, 99, 101>>

FALLBACK_SERIES ==
  [i \in 1..5 |-> [time |-> OfInt(LoadTime - 60 * 5 + (i - 1) * 60),
                   close |-> FallbackCloses[i]]]

\* the candle effect; c is the adapter's record, data the data prop.
\* setData is called with the series "pushed"; calls counts the calls
CandlesEffect(c, data) ==
  IF c.version = "v1"
  THEN LET mapped == IF data # <<>>
                     THEN SortByTime(MapCandles("v1", data)) ELSE <<>>
       IN [c EXCEPT !.pushed = IF mapped = <<>> THEN FALLBACK_SERIES
                                ELSE mapped,
                    !.calls = c.calls + 1]
  ELSE IF c.version = "v2"
  THEN [c EXCEPT !.pushed = MapCandles("v2", data), !.calls = c.calls + 1]
  ELSE IF data = <<>> \/ MapCandles("v3", data) = <<>> THEN c
  ELSE [c EXCEPT !.pushed = MapCandles("v3", data), !.calls = c.calls + 1]

\* SimulationViewer.playbackOhlc (part_002:25-39): idx counts from 0
PlaybackOhlc(data) ==
  [i \in 1..Len(data) |->
     [time |-> IF data[i].ts.type = "number" THEN data[i].ts
               ELSE IF data[i].time.type = "number" THEN data[i].time
               ELSE Number(OfInt(i - 1)),
      ts |-> UndefinedTime,
      close |-> IF data[i].finite THEN data[i].close ELSE 0,
      finite |-> TRUE]]

\* instants of the candles, epoch seconds
CandleSeconds == {1700000000, 1700000060}

\* the time fields <<time, ts>> of a candle that stands at the instant s
TimedFields(s) ==
  {<<Number(OfInt(s)), UndefinedTime>>,
   <<Number(TimesThousand(s)), UndefinedTime>>,
   <<DateString(TimesThousand(s)), UndefinedTime>>,
   <<DateObject(TimesThousand(s)), UndefinedTime>>,
   <<DateString(NaNNum), Number(TimesThousand(s))>>}

\* the time fields no time can be normalized from: missing, non-finite
\* number, unparsable string, invalid Date
UntimedFields ==
  {<<UndefinedTime, UndefinedTime>>, <<Number(NaNNum), UndefinedTime>>,
   <<DateString(NaNNum), UndefinedTime>>, <<DateObject(NaNNum), UndefinedTime>>}

TimeFields == UntimedFields \cup UNION {TimedFields(s) : s \in CandleSeconds}

\* data props: the candle at position i has the price i
DataProps(maxLen) ==
  UNION {{[i \in 1..n |-> [time |-> f[i][1], ts |-> f[i][2],
                            close |-> i, finite |-> g[i]]] :
            f \in [1..n -> TimeFields], g \in [1..n -> BOOLEAN]} :
         n \in 0..maxLen}

\* ---- TvCandles: the chart and its series ------------------------------------

\* sizes the container is laid out with; 0: not laid out yet
Widths == {0, 400, 800}
Heights == {0, 300}

\* no options applied: there is no chart
NoSize == <<0 - 1, 0 - 1>>

\* createChart and the series call (addCandlestickSeries / addSeries), then
\* chartRef.current = chart; seriesRef.current = series
CreateChart(t, width, height) ==
  [t EXCEPT !.chartsCreated = t.chartsCreated + 1,
            !.seriesCreated = t.seriesCreated + 1,
            !.chart = TRUE, !.chartRef = TRUE, !.seriesRef = TRUE,
            !.created = TRUE,
            !.chartSize = <<width, height>>,
            !.createdSize = <<width, height>>]

\* v1: initChart(width, height)
InitChart(t, width, height) ==
  IF t.created THEN t
  ELSE IF width <= 0 \/ height <= 0 THEN t
  ELSE CreateChart(t, width, height)

\* chartRef.current.applyOptions({ width, height })
ApplySize(t, width, height) ==
  IF t.chartRef THEN [t EXCEPT !.chartSize = <<width, height>>] ELSE t

ResizeTvRecreates(t, width, height) ==
  LET sized == [t EXCEPT !.width = width, !.height = height]
  IN IF width <= 0 \/ height <= 0 THEN sized
     ELSE CreateChart(sized, width, height)

\* the ResizeObserver callback:
\*   v1      if (!created) initChart(width, height)
\*           else if (chartRef.current) applyOptions({ width, height })
\*   v2, v3  if (chartRef.current) applyOptions({ width, height })
ResizeTv(t, width, height) ==
  LET sized == [t EXCEPT !.width = width, !.height = height]
  IN IF t.version = "v1" /\ ~t.created THEN InitChart(sized, width, height)
     ELSE ApplySize(sized, width, height)

\* the candle effect and the marker effect reach the series only when the
\* refs are set
DataEffectTv(t) ==
  IF t.seriesRef /\ t.chartRef THEN [t EXCEPT !.pushedData = t.data] ELSE t

MarkersEffectTv(t) ==
  IF t.seriesRef THEN [t EXCEPT !.pushedMarkers = t.markers] ELSE t

\* the first commit: the creation effect, then the candle and the marker
\* effects.  v1 creates the chart only for a real size; v2 and v3 create it
\* at once and apply clientWidth / clientHeight
MountTv(version, width, height) ==
  LET t0 == [mounted |-> TRUE, version |-> version,
             width |-> width, height |-> height,
             created |-> FALSE, chart |-> FALSE,
             chartRef |-> FALSE, seriesRef |-> FALSE,
             chartsCreated |-> 0, seriesCreated |-> 0, chartsRemoved |-> 0,
             chartSize |-> NoSize, createdSize |-> NoSize,
             data |-> 1, markers |-> 1, pushedData |-> 0, pushedMarkers |-> 0]
      t1 == IF version = "v1" THEN InitChart(t0, width, height)
            ELSE CreateChart(t0, width, height)
  IN MarkersEffectTv(DataEffectTv(t1))

\* the cleanup of the creation effect: resizeObserver.disconnect();
\*   v1      if (chart) chart.remove()
\*   v2, v3  chartRef.current?.remove()
\* then chartRef.current = null; seriesRef.current = null
UnmountTv(t) ==
  LET held == IF t.version = "v1" THEN t.chart ELSE t.chartRef
  IN [t EXCEPT !.mounted = FALSE,
               !.chartsRemoved = IF held THEN t.chartsRemoved + 1
                                 ELSE t.chartsRemoved,
               !.chartRef = FALSE, !.seriesRef = FALSE]

\* no chart adapter mounted, no calculation under way
NoTv == [mounted |-> FALSE]
NoCalc == [snap |-> [rendered |-> FALSE], cursorInstant |-> NullTs]

(***************************************************************************)
(* The state machine                                                       *)
(***************************************************************************)

InitA ==
  /\ \E n \in 0..MaxLen, q \in 0..1 : deskA = MountA(n, q)
  /\ deskB = UnmountedB
  /\ lastOp = "mount"
  /\ afterReplace = FALSE
  /\ interactive = TRUE
  /\ stepFrom = NoStep
  /\ tv = NoTv
  /\ calc = NoCalc

InitB ==
  /\ deskA = UnmountedA
  /\ deskB = MountB
  /\ lastOp = "mount"
  /\ afterReplace = FALSE
  /\ interactive = TRUE
  /\ stepFrom = NoStep
  /\ tv = NoTv
  /\ calc = NoCalc

Init == InitA \/ InitB

\* ---- deskA ----------------------------------------------------------------

\* the controls are rendered only when hasData (SimulationDesk.tsx:150)
ControlsA == deskA.mounted /\ interactive /\ HasData(deskA.r)

\* the Play / Pause button
A_TogglePlay ==
  /\ ControlsA
  /\ deskA' = RenameIds(SyncA(TogglePlayA(deskA)))
  /\ lastOp' = IF deskA.isPlaying THEN "pause" ELSE "play"
  /\ afterReplace' = FALSE
  /\ UNCHANGED <<deskB, interactive, nonDesk>>
  /\ stepFrom' = NoStep

\* the step-back button, disabled={activeIndex === 0}
A_StepBack ==
  /\ ControlsA
  /\ ActiveIndex(deskA.r) # 0
  /\ deskA' = RenameIds(SyncA(HandleStepBack(deskA)))
  /\ lastOp' = "stepBack"
  /\ afterReplace' = FALSE
  /\ UNCHANGED <<deskB, interactive, nonDesk>>
  /\ stepFrom' = IF lastOp = "stepForward" THEN stepFrom ELSE NoStep

\* the step-forward button, disabled={activeIndex >= maxIndex}
A_StepForward ==
  /\ ControlsA
  /\ ActiveIndex(deskA.r) < MaxIndex(deskA.r.totalCandles)
  /\ deskA' = RenameIds(SyncA(HandleStepForward(deskA)))
  /\ lastOp' = "stepForward"
  /\ afterReplace' = FALSE
  /\ UNCHANGED <<deskB, interactive, nonDesk>>
  /\ stepFrom' = IF QuiescentA(deskA) THEN deskA.currentIndex ELSE NoStep

\* onChange={(e) => handleScrub(Number(e.target.value))}
ScrubTo(value) ==
  /\ deskA' = RenameIds(SyncA(HandleScrub(deskA, value)))
  /\ lastOp' = "scrub"
  /\ afterReplace' = FALSE
  /\ UNCHANGED <<deskB, interactive, nonDesk>>
  /\ stepFrom' = NoStep

\* the timeline slider: <input type="range" min={0} max={maxIndex}>
A_Scrub ==
  /\ ControlsA
  /\ \E value \in 0..MaxIndex(deskA.r.totalCandles) : ScrubTo(value)

\* handleScrub called with any number
ScrubValues == (0 - 1)..(MaxLen + 1)

A_ScrubAny ==
  /\ ControlsA
  /\ \E value \in ScrubValues : ScrubTo(value)

\* the speed slider: onChange={(e) => setSpeedMs(Number(e.target.value))}
A_SetSpeed ==
  /\ ControlsA
  /\ \E ms \in SliderSpeedsA :
       deskA' = RenameIds(SyncA(SetSpeedA(deskA, ms)))
  /\ lastOp' = "speed"
  /\ UNCHANGED <<deskB, afterReplace, interactive, nonDesk>>
  /\ stepFrom' = NoStep

\* the parent passes new candles / equityCurve / trades references
\* (App.tsx: setBacktestCandles, setBacktestEquity, setBacktestTrades after
\* the awaited fetch); rendered by a later task
A_Replace ==
  /\ deskA.mounted /\ interactive
  /\ \E n \in 0..MaxLen, q \in 0..1 :
       deskA' = RenameIds([deskA EXCEPT
                   !.propsId = FreshId({deskA.propsId, deskA.r.propsId,
                                         deskA.e.propsId}),
                   !.totalCandles = n, !.equityLen = q])
  /\ lastOp' = "replace"
  /\ afterReplace' = TRUE
  /\ UNCHANGED <<deskB, interactive, nonDesk>>
  /\ stepFrom' = NoStep

\* a registered interval fires
A_TimerFire ==
  /\ deskA.mounted
  /\ \E t \in deskA.timers : deskA' = TickA(deskA, t)
  /\ lastOp' = "tick"
  /\ UNCHANGED <<deskB, afterReplace, interactive, nonDesk>>
  /\ stepFrom' = NoStep

\* React renders the pending updates and props
A_Render ==
  /\ deskA.mounted
  /\ ViewA(deskA) # deskA.r
  /\ deskA' = RenameIds(RenderA(deskA))
  /\ UNCHANGED <<deskB, lastOp, afterReplace, interactive, stepFrom, nonDesk>>

\* React runs the passive effects of the last commit
A_Effects ==
  /\ deskA.mounted
  /\ deskA.effectsPending
  /\ deskA' = RenameIds(RunEffectsA(deskA))
  /\ UNCHANGED <<deskB, lastOp, afterReplace, interactive, stepFrom, nonDesk>>

\* unmount: the cleanup of the timer effect runs
A_Unmount ==
  /\ deskA.mounted /\ interactive
  /\ LET f == FlushA(deskA)
     IN deskA' = [f EXCEPT !.mounted = FALSE,
                           !.timers = {t \in f.timers : t.id # f.effectTimer},
                           !.effectTimer = 0]
  /\ lastOp' = "unmount"
  /\ UNCHANGED <<deskB, afterReplace, interactive, nonDesk>>
  /\ stepFrom' = NoStep

\* ---- deskB ----------------------------------------------------------------

ControlsB == deskB.mounted /\ interactive

\* the awaited fetch resolves
B_FetchBacktest ==
  /\ ControlsB
  /\ \E n \in 0..MaxLen : deskB' = LoadB(deskB, n)
  /\ lastOp' = "replace"
  /\ afterReplace' = TRUE
  /\ UNCHANGED <<deskA, interactive, nonDesk>>
  /\ stepFrom' = NoStep

\* the Play button is rendered when !simState?.playing
B_Play ==
  /\ ControlsB
  /\ ~deskB.r.playing
  /\ deskB' = SyncB(PlayB(deskB))
  /\ lastOp' = "play"
  /\ afterReplace' = FALSE
  /\ UNCHANGED <<deskA, interactive, nonDesk>>
  /\ stepFrom' = NoStep

\* the Pause button is rendered when simState?.playing
B_Pause ==
  /\ ControlsB
  /\ deskB.r.playing
  /\ deskB' = SyncB(PauseB(deskB))
  /\ lastOp' = "pause"
  /\ afterReplace' = FALSE
  /\ UNCHANGED <<deskA, interactive, nonDesk>>
  /\ stepFrom' = NoStep

B_Reset ==
  /\ ControlsB
  /\ deskB' = SyncB(ResetB(deskB))
  /\ lastOp' = "reset"
  /\ afterReplace' = FALSE
  /\ UNCHANGED <<deskA, interactive, nonDesk>>
  /\ stepFrom' = NoStep

B_StepForward ==
  /\ ControlsB
  /\ deskB' = SyncB(StepForwardB(deskB))
  /\ lastOp' = "stepForward"
  /\ afterReplace' = FALSE
  /\ UNCHANGED <<deskA, interactive, nonDesk>>
  /\ stepFrom' = IF QuiescentB(deskB) /\ deskB.sim.present
                  THEN deskB.sim.step ELSE NoStep

B_StepBack ==
  /\ ControlsB
  /\ deskB' = SyncB(StepBackB(deskB))
  /\ lastOp' = "stepBack"
  /\ afterReplace' = FALSE
  /\ UNCHANGED <<deskA, interactive, nonDesk>>
  /\ stepFrom' = IF lastOp = "stepForward" THEN stepFrom ELSE NoStep

B_UpdateSpeed ==
  /\ ControlsB
  /\ \E ms \in SliderSpeedsB : deskB' = SyncB(UpdateSpeedB(deskB, ms))
  /\ lastOp' = "speed"
  /\ UNCHANGED <<deskA, afterReplace, interactive, nonDesk>>
  /\ stepFrom' = NoStep

B_TimerFire ==
  /\ deskB.mounted
  /\ deskB.timers # {}
  /\ deskB' = TickB(deskB)
  /\ lastOp' = "tick"
  /\ UNCHANGED <<deskA, afterReplace, interactive, nonDesk>>
  /\ stepFrom' = NoStep

B_Render ==
  /\ deskB.mounted
  /\ deskB.sim # deskB.r
  /\ deskB' = RenderB(deskB)
  /\ UNCHANGED <<deskA, lastOp, afterReplace, interactive, stepFrom, nonDesk>>

B_Effects ==
  /\ deskB.mounted
  /\ deskB.effectsPending
  /\ deskB' = RunEffectsB(deskB)
  /\ UNCHANGED <<deskA, lastOp, afterReplace, interactive, stepFrom, nonDesk>>

B_Unmount ==
  /\ ControlsB
  /\ LET f == FlushB(deskB)
         c == IF f.hasCleanup THEN ClearTimerRefB(f) ELSE f
     IN deskB' = [c EXCEPT !.mounted = FALSE, !.hasCleanup = FALSE]
  /\ lastOp' = "unmount"
  /\ UNCHANGED <<deskA, afterReplace, interactive, nonDesk>>
  /\ stepFrom' = NoStep

\* ---- deskA: the derived snapshot -------------------------------------------

\* deskA mounted with props and a cursor; cursorInstant is the instant the
\* cursor candle stands for (NullTs when it carries none)
InitSnapshot ==
  /\ deskA = UnmountedA
  /\ deskB = UnmountedB
  /\ lastOp = "mount"
  /\ afterReplace = FALSE
  /\ interactive = TRUE
  /\ stepFrom = NoStep
  /\ tv = NoTv
  /\ \E props \in SnapshotProps(MaxEquity, MaxTrades) :
       \E c \in CursorsFor(props[1], props[2]) :
         calc = [snap |-> MountSnapshot(c[1], c[3], props[1], props[2]),
                 cursorInstant |-> c[2]]

\* a render derives currentTs, currentEquityPoint, openTrades, realizedPnl
S_Render ==
  /\ ~calc.snap.rendered
  /\ calc' = [calc EXCEPT !.snap = RenderSnapshot(calc.snap)]
  /\ UNCHANGED <<deskA, deskB, lastOp, afterReplace, interactive, stepFrom, tv>>

\* the cursor moves to another candle of the same props; the next render
\* derives the snapshot anew
S_MoveCursor ==
  /\ calc.snap.rendered
  /\ \E c \in CursorsFor(calc.snap.equityCurve, calc.snap.trades) :
       calc' = [snap |-> MountSnapshot(c[1], c[3], calc.snap.equityCurve,
                                       calc.snap.trades),
                cursorInstant |-> c[2]]
  /\ UNCHANGED <<deskA, deskB, lastOp, afterReplace, interactive, stepFrom, tv>>

NextSnapshot == S_Render \/ S_MoveCursor

SpecSnapshot == InitSnapshot /\ [][NextSnapshot]_vars

\* ---- TvCandles: normalizeTimestamp -----------------------------------------

\* an instant, and what normalizeTimestamp gave for each form of it
InitNormalize ==
  /\ deskA = UnmountedA
  /\ deskB = UnmountedB
  /\ lastOp = "mount"
  /\ afterReplace = FALSE
  /\ interactive = TRUE
  /\ stepFrom = NoStep
  /\ tv = NoTv
  /\ \E s \in EpochSeconds :
       calc = [instant |-> s, out |-> [f \in NormalForms |-> Pending]]

N_Normalize ==
  /\ \E f \in NormalForms :
       /\ calc.out[f] = Pending
       /\ calc' = [calc EXCEPT
                     !.out[f] = NormalizeTimestamp(TimeValueOf(f, calc.instant))]
  /\ UNCHANGED <<deskA, deskB, lastOp, afterReplace, interactive, stepFrom, tv>>

NextNormalize == N_Normalize

SpecNormalize == InitNormalize /\ [][NextNormalize]_vars

\* ---- TvCandles: the candle series ------------------------------------------

\* TvCandles of some version gets its data prop from the desk (direct) or
\* from SimulationViewer (viewer), which maps the candles first
InitSeries ==
  /\ deskA = UnmountedA
  /\ deskB = UnmountedB
  /\ lastOp = "mount"
  /\ afterReplace = FALSE
  /\ interactive = TRUE
  /\ stepFrom = NoStep
  /\ tv = NoTv
  /\ \E version \in TvVersions, viewer \in BOOLEAN, data \in DataProps(MaxData) :
       calc = [version |-> version, viewer |-> viewer, raw |-> data,
               data |-> IF viewer THEN <<>> ELSE data,
               ready |-> ~viewer, pushed |-> <<>>, calls |-> 0]

\* SimulationViewer renders: TvCandles is rendered only when hasData
V_PlaybackOhlc ==
  /\ calc.viewer /\ ~calc.ready
  /\ calc.raw # <<>>
  /\ calc' = [calc EXCEPT !.data = PlaybackOhlc(calc.raw), !.ready = TRUE]
  /\ UNCHANGED <<deskA, deskB, lastOp, afterReplace, interactive, stepFrom, tv>>

\* the candle effect of TvCandles runs for the data prop
T_CandlesEffect ==
  /\ calc.ready /\ calc.calls = 0
  /\ calc' = CandlesEffect(calc, calc.data)
  /\ calc' # calc
  /\ UNCHANGED <<deskA, deskB, lastOp, afterReplace, interactive, stepFrom, tv>>

NextSeries == V_PlaybackOhlc \/ T_CandlesEffect

SpecSeries == InitSeries /\ [][NextSeries]_vars

\* ---- TvCandles: the life of the chart --------------------------------------

InitTv ==
  /\ deskA = UnmountedA
  /\ deskB = UnmountedB
  /\ lastOp = "mount"
  /\ afterReplace = FALSE
  /\ interactive = TRUE
  /\ stepFrom = NoStep
  /\ calc = NoCalc
  /\ \E version \in TvVersions, width \in Widths, height \in Heights :
       tv = MountTv(version, width, height)

\* the ResizeObserver reports a content rect (also the one it has already)
T_Resize ==
  /\ tv.mounted
  /\ \E width \in Widths, height \in Heights :
       tv' = ResizeTv(tv, width, height)
  /\ lastOp' = "resize"
  /\ UNCHANGED <<deskA, deskB, afterReplace, interactive, stepFrom, calc>>

\* the parent passes a new data array
T_DataUpdate ==
  /\ tv.mounted
  /\ tv.data < MaxUpdates
  /\ tv' = DataEffectTv([tv EXCEPT !.data = tv.data + 1])
  /\ lastOp' = "data"
  /\ UNCHANGED <<deskA, deskB, afterReplace, interactive, stepFrom, calc>>

\* the parent passes a new markers array
T_MarkersUpdate ==
  /\ tv.mounted
  /\ tv.markers < MaxUpdates
  /\ tv' = MarkersEffectTv([tv EXCEPT !.markers = tv.markers + 1])
  /\ lastOp' = "markers"
  /\ UNCHANGED <<deskA, deskB, afterReplace, interactive, stepFrom, calc>>

T_Unmount ==
  /\ tv.mounted
  /\ tv' = UnmountTv(tv)
  /\ lastOp' = "unmount"
  /\ UNCHANGED <<deskA, deskB, afterReplace, interactive, stepFrom, calc>>

NextTv == T_Resize \/ T_DataUpdate \/ T_MarkersUpdate \/ T_Unmount

SpecTv == InitTv /\ [][NextTv]_vars

\* ---- deskB: what a render derives --------------------------------------------

\* const [startingBalance, setStartingBalance] = useState(10000)
DefaultBalance == 10000

\* what the Starting Balance field can hold: Number(e.target.value) || 0
Balances == {0, DefaultBalance}

\* epoch seconds of the first candle of priceData
FirstBarTime == 1700000000

\* priceData of n candles, one minute apart; the candle at (0-based) index j
\* has the close 100 + j
PriceData(n) ==
  [i \in 1..n |-> [time |-> FirstBarTime + 60 * (i - 1), close |-> 99 + i]]

\* equity_curve of a response: the equity field of its points
EquityCurves(maxLen) == UNION {[1..n -> EquityValues] : n \in 0..maxLen}

\* array.slice(start, end) for 0 <= start
Slice(array, start, end) == SubSeq(array, start + 1, Min(end, Len(array)))

\* no candle, no point
Null == 0 - 1

\* const visibleBars = simState && totalBars > 0 ? Math.min(step + 1, totalBars) : 0
VisibleBars(s) ==
  IF s.present /\ Len(s.equityCurve) > 0
  THEN Min(s.step + 1, Len(s.equityCurve)) ELSE 0

\* const priceSeriesStart = totalBars > 0 ? Math.max(priceData.length - totalBars, 0) : 0
PriceSeriesStart(priceData, totalBars) ==
  IF totalBars > 0 THEN Max(Len(priceData) - totalBars, 0) ELSE 0

\* const simPriceSeries = totalBars > 0 ? priceData.slice(start, start + totalBars) : []
SimPriceSeries(priceData, totalBars) ==
  IF totalBars > 0
  THEN Slice(priceData, PriceSeriesStart(priceData, totalBars),
             PriceSeriesStart(priceData, totalBars) + totalBars)
  ELSE <<>>

\* const visiblePriceData = visibleBars > 0 ? simPriceSeries.slice(0, visibleBars) : []
VisiblePriceData(priceData, s) ==
  IF VisibleBars(s) > 0
  THEN Slice(SimPriceSeries(priceData, Len(s.equityCurve)), 0, VisibleBars(s))
  ELSE <<>>

\* const activePriceTime = visiblePriceData.length > 0 ? last.time : null
ActivePriceTime(visiblePriceData) ==
  IF Len(visiblePriceData) > 0
  THEN visiblePriceData[Len(visiblePriceData)].time ELSE Null

\* const currentPoint = simState && totalBars > 0
\*   ? equityCurve[Math.min(simState.step, maxStep)] : null   (its equity)
CurrentPoint(s) ==
  IF s.present /\ Len(s.equityCurve) > 0
  THEN s.equityCurve[Min(s.step, Max(Len(s.equityCurve) - 1, 0)) + 1]
  ELSE Null

\* const currentEquity = currentPoint?.equity ?? startingBalance
CurrentEquityB(s, startingBalance) ==
  IF CurrentPoint(s) # Null THEN CurrentPoint(s) ELSE startingBalance

\* const progressedTrades = simState && trades.length > 0
\*   ? trades.filter((_, idx) => idx <= simState.step) : []
ProgressedTrades(s) ==
  IF s.present /\ Len(s.trades) > 0
  THEN SubSeq(s.trades, 1, Min(s.step + 1, Len(s.trades))) ELSE <<>>

\* const offset = totalBars - candlesCount, not clamped
MarkerOffsetUnclamped(totalBars, candlesCount) == totalBars - candlesCount

\* const offset = Math.max(totalBars - candlesCount, 0)
MarkerOffset(totalBars, candlesCount) == Max(totalBars - candlesCount, 0)

\* const lastEquityIdx = simState && typeof simState.step === "number"
\*   ? Math.min(simState.step, totalBars - 1) : totalBars - 1
LastEquityIdx(s) ==
  IF s.present THEN Min(s.step, Len(s.equityCurve) - 1)
  ELSE Len(s.equityCurve) - 1

\* const startIdx = Math.max(offset + 1, 1)
StartIdx(offset) == Max(offset + 1, 1)

\* the body of the loop for the equity index i: the marker pushed, if any
MarkerAt(i, offset, priceData, equityCurve) ==
  LET prev == equityCurve[i]
      curr == equityCurve[i + 1]
      barIdx == i - offset
  IN IF curr = prev THEN <<>>
     ELSE IF barIdx < 0 \/ barIdx >= Len(priceData) THEN <<>>
     ELSE <<[time |-> priceData[barIdx + 1].time,
             price |-> priceData[barIdx + 1].close,
             side |-> IF curr >= prev THEN "long" ELSE "short"]>>

\* for (let i = startIdx; i <= lastEquityIdx; i++) { ... tradeMarkers.push }
RECURSIVE MarkerLoop(_, _, _, _, _)
MarkerLoop(i, lastEquityIdx, offset, priceData, equityCurve) ==
  IF i > lastEquityIdx THEN <<>>
  ELSE MarkerAt(i, offset, priceData, equityCurve)
       \o MarkerLoop(i + 1, lastEquityIdx, offset, priceData, equityCurve)

\* const tradeMarkers = []; if (priceData.length && equityCurve.length > 1) { ... }
TradeMarkers(priceData, s) ==
  IF Len(priceData) > 0 /\ Len(s.equityCurve) > 1
  THEN LET offset == MarkerOffset(Len(s.equityCurve), Len(priceData))
       IN MarkerLoop(StartIdx(offset), LastEquityIdx(s), offset, priceData,
                     s.equityCurve)
  ELSE <<>>

\* simState === null
NullSimState ==
  [present |-> FALSE, equityCurve |-> <<>>, trades |-> <<>>, step |-> 0]

\* nothing rendered for the current state yet
NoView ==
  [offset |-> 0, visiblePriceData |-> <<>>, activePriceTime |-> Null,
   currentEquity |-> Null, progressedTrades |-> <<>>, tradeMarkers |-> <<>>]

\* one render of the desk: the values the JSX and SimulationViewer get
RenderView(c) ==
  [c EXCEPT
     !.rendered = TRUE,
     !.view =
       [offset |-> MarkerOffset(Len(c.simState.equityCurve), Len(c.priceData)),
        visiblePriceData |-> VisiblePriceData(c.priceData, c.simState),
        activePriceTime |->
          ActivePriceTime(VisiblePriceData(c.priceData, c.simState)),
        currentEquity |-> CurrentEquityB(c.simState, c.startingBalance),
        progressedTrades |-> ProgressedTrades(c.simState),
        tradeMarkers |-> TradeMarkers(c.priceData, c.simState)]]

\* deskB is mounted by its parent with priceData; no backtest has run
InitView ==
  /\ deskA = UnmountedA
  /\ deskB = UnmountedB
  /\ lastOp = "mount"
  /\ afterReplace = FALSE
  /\ interactive = TRUE
  /\ stepFrom = NoStep
  /\ tv = NoTv
  /\ \E n \in 0..MaxCandles :
       calc = [priceData |-> PriceData(n), simState |-> NullSimState,
               startingBalance |-> DefaultBalance, rendered |-> FALSE,
               view |-> NoView]

D_Render ==
  /\ ~calc.rendered
  /\ calc' = RenderView(calc)
  /\ UNCHANGED <<deskA, deskB, lastOp, afterReplace, interactive, stepFrom, tv>>

\* fetchBacktest resolves: setSimState({ response: data, step: 0, ... })
D_FetchBacktest ==
  /\ calc.rendered
  /\ \E equityCurve \in EquityCurves(MaxBars), n \in 0..MaxLedger :
       calc' = [calc EXCEPT
                  !.simState = [present |-> TRUE, equityCurve |-> equityCurve,
                                trades |-> [i \in 1..n |-> i], step |-> 0],
                  !.rendered = FALSE, !.view = NoView]
  /\ UNCHANGED <<deskA, deskB, lastOp, afterReplace, interactive, stepFrom, tv>>

\* stepForward: next = Math.min(s.step + 1, maxStep)
D_StepForward ==
  /\ calc.rendered /\ calc.simState.present
  /\ calc' = [calc EXCEPT
                !.simState.step =
                  Min(calc.simState.step + 1,
                      Max(Len(calc.simState.equityCurve) - 1, 0)),
                !.rendered = FALSE, !.view = NoView]
  /\ UNCHANGED <<deskA, deskB, lastOp, afterReplace, interactive, stepFrom, tv>>

\* stepBack: prev = Math.max(s.step - 1, 0)
D_StepBack ==
  /\ calc.rendered /\ calc.simState.present
  /\ calc' = [calc EXCEPT !.simState.step = Max(calc.simState.step - 1, 0),
                          !.rendered = FALSE, !.view = NoView]
  /\ UNCHANGED <<deskA, deskB, lastOp, afterReplace, interactive, stepFrom, tv>>

\* the Starting Balance field changes
D_SetStartingBalance ==
  /\ calc.rendered
  /\ \E b \in Balances \ {calc.startingBalance} :
       calc' = [calc EXCEPT !.startingBalance = b, !.rendered = FALSE,
                            !.view = NoView]
  /\ UNCHANGED <<deskA, deskB, lastOp, afterReplace, interactive, stepFrom, tv>>

NextView ==
  D_Render \/ D_FetchBacktest \/ D_StepForward \/ D_StepBack
  \/ D_SetStartingBalance

SpecView == InitView /\ [][NextView]_vars

\* ---- deskA: the candle window ------------------------------------------------

\* candles of n candles; the candle at (0-based) index j is named j
CandleSeries(n) == [i \in 1..n |-> i - 1]

\* series lengths around the window size
CandleCounts(beyond) ==
  {0, 1, 2} \cup {WindowSize - 1 + k : k \in 0..(beyond + 1)}

\* const end = activeIndex; candles.slice(start, end): the active candle left out
CandleWindowExclusive(hasData, activeIndex, candles) ==
  IF ~hasData THEN <<>>
  ELSE Slice(candles, Max(0, activeIndex - WindowSize), activeIndex)

\* const candleWindow = useMemo(() => { if (!hasData) return [];
\*   const end = activeIndex + 1; const start = Math.max(0, end - 300);
\*   return candles.slice(start, end) }, [activeIndex, candles, hasData])
CandleWindow(hasData, activeIndex, candles) ==
  IF ~hasData THEN <<>>
  ELSE Slice(candles, Max(0, activeIndex + 1 - WindowSize), activeIndex + 1)

\* a render of the desk with the hook value currentIndex
RenderWindow(c, currentIndex) ==
  LET r == [totalCandles |-> Len(c.candles), equityLen |-> c.equityLen,
            currentIndex |-> currentIndex]
  IN [c EXCEPT !.currentIndex = currentIndex,
               !.activeIndex = ActiveIndex(r),
               !.candleWindow = CandleWindow(HasData(r), ActiveIndex(r),
                                             c.candles)]

\* the desk is mounted with candles and an equity curve: currentIndex = 0
InitWindow ==
  /\ deskA = UnmountedA
  /\ deskB = UnmountedB
  /\ lastOp = "mount"
  /\ afterReplace = FALSE
  /\ interactive = TRUE
  /\ stepFrom = NoStep
  /\ tv = NoTv
  /\ \E n \in CandleCounts(MaxBeyond), q \in 0..1 :
       calc = RenderWindow([candles |-> CandleSeries(n), equityLen |-> q,
                            currentIndex |-> 0, activeIndex |-> 0,
                            candleWindow |-> <<>>], 0)

\* the controls are rendered only when hasData (SimulationDesk.tsx:150)
ControlsWindow == Len(calc.candles) > 0 /\ calc.equityLen > 0

\* handleStepForward, and the render of the click
W_StepForward ==
  /\ ControlsWindow
  /\ calc.activeIndex < MaxIndex(Len(calc.candles))
  /\ calc' = RenderWindow(calc, Min(MaxIndex(Len(calc.candles)),
                                    calc.currentIndex + 1))
  /\ lastOp' = "stepForward"
  /\ UNCHANGED <<deskA, deskB, afterReplace, interactive, stepFrom, tv>>

\* handleStepBack, and the render of the click
W_StepBack ==
  /\ ControlsWindow
  /\ calc.activeIndex # 0
  /\ calc' = RenderWindow(calc, Max(0, calc.currentIndex - 1))
  /\ lastOp' = "stepBack"
  /\ UNCHANGED <<deskA, deskB, afterReplace, interactive, stepFrom, tv>>

\* handleScrub to an end of the timeline, and the render of the change
W_Scrub ==
  /\ ControlsWindow
  /\ \E value \in {0, MaxIndex(Len(calc.candles))} :
       calc' = RenderWindow(calc, value)
  /\ lastOp' = "scrub"
  /\ UNCHANGED <<deskA, deskB, afterReplace, interactive, stepFrom, tv>>

NextWindow == W_StepForward \/ W_StepBack \/ W_Scrub

SpecWindow == InitWindow /\ [][NextWindow]_vars

\* ---- environment ----------------------------------------------------------

\* the user and the parent stop acting on the desk
UserLeaves ==
  /\ interactive
  /\ deskA.mounted \/ deskB.mounted
  /\ interactive' = FALSE
  /\ UNCHANGED <<deskA, deskB, lastOp, afterReplace, stepFrom, nonDesk>>

Next ==
  \/ A_TogglePlay \/ A_StepBack \/ A_StepForward \/ A_Scrub \/ A_SetSpeed
  \/ A_Replace \/ A_TimerFire \/ A_Render \/ A_Effects \/ A_Unmount
  \/ B_FetchBacktest \/ B_Play \/ B_Pause \/ B_Reset \/ B_StepForward
  \/ B_StepBack \/ B_UpdateSpeed \/ B_TimerFire \/ B_Render \/ B_Effects
  \/ B_Unmount
  \/ UserLeaves

Spec == Init /\ [][Next]_vars

\* the interval fires, React renders and runs effects: the event loop
\* does not starve a registered timer or a scheduled task
Fairness ==
  /\ WF_vars(A_TimerFire) /\ WF_vars(A_Render) /\ WF_vars(A_Effects)
  /\ WF_vars(B_TimerFire) /\ WF_vars(B_Render) /\ WF_vars(B_Effects)

LiveSpec == Spec /\ Fairness

\* handleScrub as a function of its argument, not only of what the slider emits
NextScrub == Next \/ A_ScrubAny

SpecScrub == Init /\ [][NextScrub]_vars

(***************************************************************************)
(* Properties                                                              *)
(***************************************************************************)

Clamp(v, lo, hi) == Max(lo, Min(v, hi))

LastIndexA == MaxIndex(deskA.r.totalCandles)

\* C1: whenever the rendered candle series is non-empty, the index the
\* snapshot and the candle window are computed at (activeIndex) lies in
\* 0 .. len(candles) - 1, also while a larger index is still held.
C1_CursorInRange ==
  (deskA.mounted /\ deskA.r.totalCandles > 0)
    => (0 <= ActiveIndex(deskA.r)
        /\ ActiveIndex(deskA.r) < deskA.r.totalCandles)

\* a render of a shorter series with the index of the longer one still held
C1_Witness ==
  /\ deskA.mounted /\ HasData(deskA.r)
  /\ deskA.r.currentIndex > MaxIndex(deskA.r.totalCandles)

\* C2: once a replacement of the series has been rendered and its effects
\* have run, with nothing else having happened since, the cursor is 0 and
\* the controller Stopped.
C2_ReplaceResets ==
  /\ (deskA.mounted /\ lastOp = "replace" /\ QuiescentA(deskA))
       => (deskA.currentIndex = 0 /\ ~deskA.isPlaying)
  /\ (deskB.mounted /\ lastOp = "replace" /\ QuiescentB(deskB))
       => (deskB.sim.step = 0 /\ ~deskB.sim.playing)

\* the reset of the last replacement has been applied
ResetDoneA == deskA.e.propsId = deskA.propsId

\* C3: after a replacement and its reset, and before any play, step or
\* scrub, no firing of the interval changes the cursor.
C3_NoStaleTick ==
  [][/\ (A_TimerFire /\ afterReplace /\ ResetDoneA)
          => deskA'.currentIndex = deskA.currentIndex
     /\ (B_TimerFire /\ afterReplace)
          => deskB'.sim.step = deskB.sim.step]_vars

\* C4: at most one interval is registered at any moment, and none after
\* unmount.
C4_OneTimer ==
  /\ Cardinality(deskA.timers) <= 1
  /\ Cardinality(deskB.timers) <= 1
  /\ ~deskA.mounted => deskA.timers = {}
  /\ ~deskB.mounted => deskB.timers = {}

\* the speed was changed while playing: the interval was re-registered
C4_Witness ==
  /\ lastOp = "speed" /\ deskA.timers # {} /\ deskA.speedMs # DefaultSpeedA
  /\ deskA.e.speedMs = deskA.speedMs

\* C5: play invoked while Stopped with the cursor on the last index leaves
\* the controller Stopped.
C5_PlayOnlyBeforeEnd ==
  [][/\ (A_TogglePlay /\ ~deskA.isPlaying /\ QuiescentA(deskA)
           /\ deskA.currentIndex = LastIndexA)
          => ~deskA'.isPlaying
     /\ (B_Play /\ ~deskB.sim.playing /\ QuiescentB(deskB)
           /\ deskB.sim.step = MaxStep(deskB.r))
          => ~deskB'.sim.playing]_vars

\* what the claim says of one firing: idx, playing before; idx2, playing2 after
TickOutcome(idx, playing, last, idx2, playing2) ==
  /\ (playing /\ idx < last) => (idx2 = idx + 1 /\ playing2)
  /\ (playing /\ idx = last) => (idx2 = idx /\ ~playing2)
  /\ idx2 <= Max(idx, last)

PlayingAloneA ==
  /\ deskA.mounted /\ ~interactive /\ QuiescentA(deskA)
  /\ HasData(deskA.r) /\ deskA.isPlaying

PlayingAloneB ==
  /\ deskB.mounted /\ ~interactive /\ QuiescentB(deskB)
  /\ deskB.sim.present /\ deskB.sim.equityLen > 0 /\ deskB.sim.playing

\* C7: once Playing over a non-empty series, with nobody acting and the
\* interval firing, the controller eventually is Stopped on the last index.
C7_PlaysToEnd ==
  /\ PlayingAloneA ~> (~deskA.isPlaying /\ deskA.currentIndex = LastIndexA)
  /\ PlayingAloneB ~> (~deskB.sim.playing
                        /\ deskB.sim.step = MaxStep(deskB.sim))

\* C8: after pause the controller is Stopped and no interval is registered,
\* and an interval is registered only for a render that was Playing: no
\* firing can touch the cursor until play.
C8_PauseStops ==
  /\ lastOp = "pause" =>
       /\ ~deskA.isPlaying /\ deskA.timers = {}
       /\ ~deskB.sim.playing /\ deskB.timers = {}
  /\ deskA.timers # {} => deskA.e.isPlaying
  /\ deskB.timers # {} => deskB.e.playing

\* paused in the middle of a series that was Playing
C8_Witness ==
  /\ lastOp = "pause" /\ deskA.mounted /\ deskA.totalCandles > 1
  /\ deskA.currentIndex > 0
  /\ deskA.currentIndex < MaxIndex(deskA.totalCandles)

\* C9: a manual step moves the cursor by +1 / -1 clamped to the range and
\* leaves the controller Stopped.
C9_StepPauses ==
  [][/\ (A_StepForward /\ QuiescentA(deskA)) =>
          /\ deskA'.currentIndex = Clamp(deskA.currentIndex + 1, 0, LastIndexA)
          /\ ~deskA'.isPlaying
     /\ (A_StepBack /\ QuiescentA(deskA)) =>
          /\ deskA'.currentIndex = Clamp(deskA.currentIndex - 1, 0, LastIndexA)
          /\ ~deskA'.isPlaying
     /\ (B_StepForward /\ QuiescentB(deskB) /\ deskB.sim.present) =>
          /\ deskB'.sim.step = Clamp(deskB.sim.step + 1, 0, MaxStep(deskB.r))
          /\ ~deskB'.sim.playing
     /\ (B_StepBack /\ QuiescentB(deskB) /\ deskB.sim.present) =>
          /\ deskB'.sim.step = Clamp(deskB.sim.step - 1, 0, MaxStep(deskB.r))
          /\ ~deskB'.sim.playing]_vars

NextTickIndexA(d) == {TickA(d, t).currentIndex : t \in d.timers}

\* C11: a change of the speed slider made on a settled desk changes only the
\* tick interval: the cursor index and the Playing / Stopped state stay as
\* they were, and when an interval was running one is running afterwards
\* and its next tick leaves the cursor where the tick of the old interval
\* would have left it.
C11_SpeedOnly ==
  [][/\ (A_SetSpeed /\ QuiescentA(deskA)) =>
          /\ deskA'.currentIndex = deskA.currentIndex
          /\ deskA'.isPlaying = deskA.isPlaying
          /\ deskA'.r.currentIndex = deskA.r.currentIndex
          /\ deskA'.r.isPlaying = deskA.r.isPlaying
          /\ (deskA.timers # {}) =>
                /\ deskA'.timers # {}
                /\ NextTickIndexA(deskA') = NextTickIndexA(deskA)
     /\ (B_UpdateSpeed /\ QuiescentB(deskB)) =>
          /\ deskB'.sim.step = deskB.sim.step
          /\ deskB'.sim.playing = deskB.sim.playing
          /\ (deskB.timers # {}) =>
                /\ deskB'.timers # {}
                /\ TickB(deskB').sim.step = TickB(deskB).sim.step
    ]_vars

\* the speed was changed during playback, past the first candle
C11_Witness ==
  /\ lastOp = "speed"
  /\ deskA.mounted /\ deskA.isPlaying /\ deskA.currentIndex > 0
  /\ deskA.speedMs # DefaultSpeedA
  /\ deskA.timers # {}

\* C12: a step forward from index i followed at once by a step back leaves
\* the cursor at i when i is below the last index, and at
\* max(lastIndex - 1, 0) when i is the last index.
C12_StepRoundTrip ==
  (lastOp = "stepBack" /\ stepFrom # NoStep) =>
    /\ deskA.mounted =>
          deskA.currentIndex =
            IF stepFrom < MaxIndex(deskA.totalCandles) THEN stepFrom
            ELSE Max(MaxIndex(deskA.totalCandles) - 1, 0)
    /\ deskB.mounted =>
          deskB.sim.step =
            IF stepFrom < MaxStep(deskB.sim) THEN stepFrom
            ELSE Max(MaxStep(deskB.sim) - 1, 0)

\* the pair was made below the last index
C12_Witness ==
  /\ lastOp = "stepBack" /\ stepFrom # NoStep
  /\ deskA.mounted /\ deskA.currentIndex = stepFrom
  /\ stepFrom > 0 /\ stepFrom < MaxIndex(deskA.totalCandles)

\* the pair was made at the last index
C12_WitnessBoundary ==
  /\ lastOp = "stepBack" /\ stepFrom # NoStep
  /\ deskB.mounted /\ stepFrom = MaxStep(deskB.sim) /\ stepFrom > 0
  /\ deskB.sim.step = stepFrom - 1

\* the rendered snapshot
Snap == calc.snap

\* the last sample of the series at or before t, the first one when there
\* is none
LastAtOrBefore(eq, t) ==
  LET before == {i \in 1..Len(eq) : eq[i].ts <= t}
  IN IF before = {} THEN eq[1]
     ELSE eq[CHOOSE i \in before : \A j \in before : j <= i]

\* C13: for an equity series ascending by ts and a cursor time t the
\* current equity point is the last sample with ts <= t, and the first
\* sample when t precedes every sample; the series [(0,1000),(120000,1050)]
\* gives 1000 at t = 60000 and 1050 at t = 120000.
C13_CurrentEquity ==
  Snap.rendered =>
    /\ Snap.currentEquityPoint = LastAtOrBefore(Snap.equityCurve, Snap.currentTs)
    /\ (Snap.equityCurve = ExampleEquity /\ Snap.currentTs = 60000)
          => Snap.currentEquityPoint.equity = 1000
    /\ (Snap.equityCurve = ExampleEquity /\ Snap.currentTs = 120000)
          => Snap.currentEquityPoint.equity = 1050

\* the cursor stands on the second sample of the example series
C13_Witness ==
  /\ Snap.rendered /\ Snap.equityCurve = ExampleEquity
  /\ Snap.currentTs = 120000 /\ Snap.currentEquityPoint.equity = 1050

\* occurrences of x in the sequence
Count(seq, x) == Cardinality({i \in 1..Len(seq) : seq[i] = x})

\* the open-trade list holds exactly the ledger's trades open at t, in
\* ascending entry_ts order
ExactlyOpenAscending ==
  /\ \A x \in TradeSet :
       Count(Snap.openTrades, x) =
         IF x.entry_ts <= Snap.currentTs
            /\ (x.exit_ts = NullTs \/ x.exit_ts > Snap.currentTs)
         THEN Count(Snap.trades, x) ELSE 0
  /\ \A i, j \in 1..Len(Snap.openTrades) :
       i < j => Snap.openTrades[i].entry_ts <= Snap.openTrades[j].entry_ts

\* C14 as stated: the open-trade list is exactly the trades with
\* entry_ts <= t and no exit at or before t, ascending by entry_ts, and
\* every trade with an exit time is left out at t = exit_ts and listed at
\* t = exit_ts - 1.
C14_OpenTradesAsStated ==
  Snap.rendered =>
    /\ ExactlyOpenAscending
    /\ \A i \in 1..Len(Snap.trades) :
         LET trade == Snap.trades[i]
         IN trade.exit_ts # NullTs =>
              /\ Snap.currentTs = trade.exit_ts
                   => Count(Snap.openTrades, trade) = 0
              /\ Snap.currentTs = trade.exit_ts - 1
                   => Count(Snap.openTrades, trade) > 0

\* C14 (amended): as stated, but a trade is listed at t = exit_ts - 1 only
\* when it was entered before its exit time (entry_ts < exit_ts).
C14_OpenTrades ==
  Snap.rendered =>
    /\ ExactlyOpenAscending
    /\ \A i \in 1..Len(Snap.trades) :
         LET trade == Snap.trades[i]
         IN trade.exit_ts # NullTs =>
              /\ Snap.currentTs = trade.exit_ts
                   => Count(Snap.openTrades, trade) = 0
              /\ (Snap.currentTs = trade.exit_ts - 1
                    /\ trade.entry_ts < trade.exit_ts)
                   => Count(Snap.openTrades, trade) > 0

\* two open trades listed against the ledger order, one of them a
\* millisecond before its exit
C14_Witness ==
  /\ Snap.rendered /\ Len(Snap.openTrades) = 2 /\ Len(Snap.trades) = 2
  /\ Snap.trades[1].entry_ts > Snap.trades[2].entry_ts
  /\ Snap.openTrades[1] = Snap.trades[2]
  /\ \E i \in 1..2 : Snap.trades[i].exit_ts = Snap.currentTs + 1

\* the sum of pnl over the ledger positions in the set
RECURSIVE SumAt(_, _)
SumAt(trades, positions) ==
  IF positions = {} THEN 0
  ELSE LET i == CHOOSE k \in positions : TRUE
       IN trades[i].pnl + SumAt(trades, positions \ {i})

\* C15: the realized P&L at t is the sum of pnl over exactly the trades
\* with an exit time at or before t (0 when there are none); a trade that
\* exits at t is realized and not open; the ledger of one trade
\* (entry 0, exit 120000, pnl 50) gives one open trade and 0 realized at
\* t = 60000, and no open trade and 50 realized at t = 120000.
C15_RealizedPnl ==
  Snap.rendered =>
    /\ Snap.realizedPnl =
         SumAt(Snap.trades,
               {i \in 1..Len(Snap.trades) :
                  /\ Snap.trades[i].exit_ts # NullTs
                  /\ Snap.trades[i].exit_ts <= Snap.currentTs})
    /\ \A i \in 1..Len(Snap.trades) :
         Snap.trades[i].exit_ts = Snap.currentTs
           => Count(Snap.openTrades, Snap.trades[i]) = 0
    /\ (Snap.trades = ExampleTrades /\ Snap.currentTs = 60000)
          => (Len(Snap.openTrades) = 1 /\ Snap.realizedPnl = 0)
    /\ (Snap.trades = ExampleTrades /\ Snap.currentTs = 120000)
          => (Len(Snap.openTrades) = 0 /\ Snap.realizedPnl = 50)

\* the example trade has just exited
C15_Witness ==
  /\ Snap.rendered /\ Snap.trades = ExampleTrades
  /\ Snap.currentTs = 120000
  /\ Snap.openTrades = <<>> /\ Snap.realizedPnl = 50

\* C16: whatever form the cursor candle carries its instant in (ts,
\* numeric time in seconds or milliseconds, date string, Date), the cursor
\* time is that instant in the unit of the equity and trade times (epoch
\* milliseconds), so the snapshot is the one of the ts form.
C16_SameUnit ==
  (Snap.rendered /\ calc.cursorInstant # NullTs) =>
    /\ Snap.currentTs = calc.cursorInstant
    /\ LET viaTs == RenderSnapshot([Snap EXCEPT
                       !.currentCandle = CandleOf("ts", calc.cursorInstant)])
       IN /\ Snap.currentEquityPoint = viaTs.currentEquityPoint
          /\ Snap.openTrades = viaTs.openTrades
          /\ Snap.realizedPnl = viaTs.realizedPnl

\* C17 as stated: an instant given as integer epoch seconds and the same
\* instant given as integer epoch milliseconds normalize to the same value,
\* for every instant.
C17_SameInstantAsStated ==
  (calc.out["seconds"] # Pending /\ calc.out["millis"] # Pending) =>
    calc.out["seconds"] = calc.out["millis"]

\* the instants both forms of which the magnitude test tells apart:
\* seconds at most SecondsLimit, milliseconds above it
Distinguishable(s) == s <= SecondsLimit /\ s > SecondsLimit \div MsPerSecond

\* C17 (amended): for every instant whose epoch-seconds value s has
\* SecondsLimit / 1000 < s <= SecondsLimit, the integer epoch seconds and
\* the integer epoch milliseconds normalize to the same value, s.
C17_SameInstant ==
  (/\ calc.out["seconds"] # Pending /\ calc.out["millis"] # Pending
   /\ Distinguishable(calc.instant)) =>
    /\ calc.out["seconds"] = calc.out["millis"]
    /\ calc.out["seconds"] = OfInt(calc.instant)

\* 1700000000 and 1700000000000 normalized
C17_Witness ==
  /\ calc.instant = 1700000000
  /\ calc.out["seconds"] = OfInt(1700000000)
  /\ calc.out["millis"] = OfInt(1700000000)

\* no time can be normalized from the candle
CannotNormalize(d) ==
  NormalizeTimestamp(d.time) = NullNum /\ NormalizeTimestamp(d.ts) = NullNum

\* C18: a candle whose time cannot be normalized (missing, non-finite
\* number, unparsable string, invalid Date) is in no series passed to
\* setData, under any time.
C18_UntimedDropped ==
  calc.calls > 0 =>
    \A i \in 1..Len(calc.raw) :
      CannotNormalize(calc.raw[i]) =>
        \A k \in 1..Len(calc.pushed) : calc.pushed[k].close # calc.raw[i].close

\* C19: every series passed to setData is ascending by normalized time,
\* whatever the order and the time forms of the input candles.
C19_PushedAscending ==
  calc.calls > 0 =>
    \A i, j \in 1..Len(calc.pushed) :
      i < j => ~Before(calc.pushed[j].time, calc.pushed[i].time)

\* the chart and its series are created at most once; no chart is removed
\* while mounted, and after the unmount the chart is removed once if it was
\* created
CreatedOnceRemovedOnce ==
  /\ tv.chartsCreated <= 1 /\ tv.seriesCreated <= 1
  /\ tv.mounted => tv.chartsRemoved = 0
  /\ ~tv.mounted => tv.chartsRemoved = tv.chartsCreated

\* a resize that finds the chart changes its width and height, nothing else
ResizeOnlyResizes ==
  (T_Resize /\ tv.chartsCreated = 1) =>
    \E width \in Widths, height \in Heights :
      tv' = [tv EXCEPT !.width = width, !.height = height,
                       !.chartSize = <<width, height>>]

ViewEquity == calc.simState.equityCurve

\* C21: a render of the desk without an equity curve (no backtest yet, or a
\* response whose curve is empty) exposes no current equity: neither 0 nor
\* the starting balance is shown as the current equity.
C21_NoDataState ==
  calc.rendered /\ Len(ViewEquity) = 0 => calc.view.currentEquity = Null

\* the marker the claim asks for at the equity index k
StatedMarker(k) ==
  LET offset == Max(Len(ViewEquity) - Len(calc.priceData), 0)
      bar == calc.priceData[k - offset + 1]
  IN [time |-> bar.time, price |-> bar.close,
      side |-> IF ViewEquity[k + 1] > ViewEquity[k] THEN "long" ELSE "short"]

\* the equity indices the claim asks a marker for
StatedSteps ==
  LET offset == Max(Len(ViewEquity) - Len(calc.priceData), 0)
  IN {k \in 1..Min(calc.simState.step, Len(ViewEquity) - 1) :
        /\ ViewEquity[k + 1] # ViewEquity[k]
        /\ 0 <= k - offset
        /\ k - offset < Len(calc.priceData)}

\* C22: the rendered markers are, one each and in the order of k, the
\* markers of the equity indices k in 1..step whose equity differs from
\* equity[k-1] and with 0 <= k - offset < len(candles): at candle k - offset,
\* with its time and close, long if equity rose and short if it fell; there
\* is no other marker.
C22_MarkersAsStated ==
  calc.rendered =>
    /\ Len(calc.view.tradeMarkers) = Cardinality(StatedSteps)
    /\ {calc.view.tradeMarkers[i] : i \in 1..Len(calc.view.tradeMarkers)}
         = {StatedMarker(k) : k \in StatedSteps}

\* C23: whenever the response carries a non-empty trades list, the inferred
\* marker list of the render is empty.
C23_NoMarkersWithLedger ==
  calc.rendered /\ Len(calc.simState.trades) > 0
    => calc.view.tradeMarkers = <<>>

\* C24: when priceData is longer than the equity curve the offset of the
\* render is 0, the markers are computed at every step, and every marker
\* carries the time and close of a candle of priceData (index within
\* 0 .. len(candles) - 1).
C24_OffsetClamped ==
  calc.rendered /\ Len(calc.priceData) > Len(ViewEquity) =>
    /\ calc.view.offset = 0
    /\ \A i \in 1..Len(calc.view.tradeMarkers) :
         \E j \in 1..Len(calc.priceData) :
           /\ calc.priceData[j].time = calc.view.tradeMarkers[i].time
           /\ calc.priceData[j].close = calc.view.tradeMarkers[i].price

\* priceData longer than the curve, at a step whose equity change gave a marker
C24_Witness ==
  /\ calc.rendered
  /\ Len(calc.priceData) > Len(ViewEquity)
  /\ calc.simState.step >= 1
  /\ calc.view.tradeMarkers # <<>>

\* the markers of the render of the step before
MarkersBefore ==
  TradeMarkers(calc.priceData,
               [calc.simState EXCEPT !.step = calc.simState.step - 1])

\* C27: the marker a render adds for the equity change at its own step k is
\* on the active candle of that render: its time is activePriceTime.
C27_MarkerOnActiveCandle ==
  /\ calc.rendered
  /\ calc.simState.step >= 1
  /\ Len(calc.view.tradeMarkers) > Len(MarkersBefore)
  => calc.view.tradeMarkers[Len(calc.view.tradeMarkers)].time
       = calc.view.activePriceTime

\* C25: after a replacement of the series and before the next play, step or
\* scrub, every render of the new series with data derives its snapshot and
\* its candle window at index 0: no render pairs the new series with the
\* index held for the old one.
C25_NewSeriesAtZero ==
  (/\ deskA.mounted
   /\ afterReplace
   /\ deskA.r.propsId = deskA.propsId
   /\ HasData(deskA.r))
    => ActiveIndex(deskA.r) = 0

\* C26: while TvCandles is mounted and its chart exists, the latest data
\* prop and the latest markers prop are the ones pushed to the series (every
\* handler and effect of the adapter having run), also when the chart was
\* created by the resize observer after a mount at zero size.
C26_LatestPropsPushed ==
  (tv.mounted /\ tv.chartRef)
    => (tv.pushedData = tv.data /\ tv.pushedMarkers = tv.markers)

\* a candle of the input the adapter can show: finite prices and a time that
\* normalizes
ValidCandle(version, d) == d.finite /\ GetPointTimestamp(version, d) # NullNum

\* C28: every candle passed to setData has the prices of a candle of the
\* input data with finite prices, and when no candle of the input is valid
\* nothing is passed: no candle is made up.
C28_NoFabricatedCandle ==
  calc.calls > 0 =>
    /\ \A k \in 1..Len(calc.pushed) :
         \E i \in 1..Len(calc.raw) :
           calc.raw[i].finite /\ calc.raw[i].close = calc.pushed[k].close
    /\ (\A i \in 1..Len(calc.raw) : ~ValidCandle(calc.version, calc.raw[i]))
         => calc.pushed = <<>>

\* the candles of the input that can be shown carry pairwise distinct
\* timestamps (time and ts fields, as given)
DistinctTimestamps(version, data) ==
  \A i, j \in 1..Len(data) :
    (i # j /\ ValidCandle(version, data[i]) /\ ValidCandle(version, data[j]))
      => <<data[i].time, data[i].ts>> # <<data[j].time, data[j].ts>>

\* C29: for input candles with distinct timestamps, the series passed to
\* setData has strictly increasing times: no two of them get the same chart
\* time, whatever units the timestamps are given in.
C29_StrictlyIncreasing ==
  (calc.calls > 0 /\ DistinctTimestamps(calc.version, calc.raw)) =>
    \A i, j \in 1..Len(calc.pushed) :
      i < j => Before(calc.pushed[i].time, calc.pushed[j].time)

(***************************************************************************)
(* deskA: the candle window (SpecWindow)                                   *)
(***************************************************************************)

\* the window is the run of candles that ends at the active index
\* inclusive, min(activeIndex + 1, 300) long
WindowEndsAtCursor ==
  ControlsWindow =>
    /\ Len(calc.candleWindow) = Min(calc.activeIndex + 1, WindowSize)
    /\ \A k \in 1..Len(calc.candleWindow) :
         calc.candleWindow[k]
           = calc.candles[calc.activeIndex + 1 - Len(calc.candleWindow) + k]

\* a step forward by one appends the next candle, and drops the oldest one
\* only when the window held 300 already
StepAppendsNext ==
  (W_StepForward /\ calc'.activeIndex = calc.activeIndex + 1) =>
    calc'.candleWindow
      = (IF Len(calc.candleWindow) = WindowSize
         THEN Tail(calc.candleWindow) ELSE calc.candleWindow)
        \o <<calc.candles[calc'.activeIndex + 1]>>

\* C30: at every cursor position with data present the candle window given
\* to the chart is the contiguous run of candles ending at the active index
\* inclusive, of length min(activeIndex + 1, 300); advancing the cursor by
\* one appends exactly the next candle and drops the oldest one only once
\* the window already holds 300.
C30_CandleWindow == []WindowEndsAtCursor /\ [][StepAppendsNext]_vars

\* a step forward taken with a full window: the oldest candle was dropped
C30_Witness ==
  /\ ControlsWindow
  /\ lastOp = "stepForward"
  /\ Len(calc.candleWindow) = WindowSize
  /\ calc.candleWindow[1] = 1
  /\ calc.activeIndex = WindowSize

====
